---------------------------- MODULE Spec2Model ----------------------------
(***************************************************************************)
(* Model of the Rover in-memory indexer (src/src/rover.rs).                *)
(*                                                                         *)
(* A Rover owns a hash index `maps` and an order index `btrees`, both      *)
(* keyed by a u8 column position, and a boxed ValueDecoder.                *)
(* index_all_columns decodes a raw value and calls index_column for every  *)
(* enumerated column with the position `i as u8`; get reads the hash       *)
(* index, sort_by_column walks the order index.                            *)
(***************************************************************************)
EXTENDS Integers, Sequences, FiniteSets, TLC

VARIABLES
    decoder,   \* Rover.value_decoder: which ValueDecoder was boxed into new()
    maps,      \* Rover.maps   : position -> (Column -> Vec<K>), a hash map
    btrees,    \* Rover.btrees : position -> entries sorted by Column
    log,       \* history: the completed index_all_columns calls, in call order
    last,      \* the last call made on the Rover and what it returned
    alive,     \* FALSE once a panic has unwound past the caller
    pending    \* the index_all_columns call that is under way, and how far it is

vars == <<decoder, maps, btrees, log, last, alive, pending>>

-----------------------------------------------------------------------------
(* Bounds of the model. *)

\* an index_all_columns call is made only while fewer than this many completed
MaxIngests == 2

-----------------------------------------------------------------------------
(* ColumnIndex = u8 *)

U8Range == 256

ColumnIndex == 0 .. (U8Range - 1)

\* a cast that counts positions from 1 instead of 0
AsU8_from_one(i) == (i + 1) % U8Range

\* `i as u8` of a usize: truncation to the low eight bits
AsU8(i) == i % U8Range

-----------------------------------------------------------------------------
(* enum Column { Number(i32), Str(String) } with the derived Eq and Ord.   *)
(* A String is its sequence of UTF-8 bytes.                                *)

Number(n) == [tag |-> "Number", num |-> n, str |-> <<>>]

Str(s) == [tag |-> "Str", num |-> 0, str |-> s]

\* the discriminant the derived Ord compares first
VariantRank(c) == IF c.tag = "Number" THEN 0 ELSE 1

\* Ord for String: lexicographic on bytes, a proper prefix sorting first
StrLess(a, b) ==
    \E i \in 1 .. (Len(b)) :
        /\ \A j \in 1 .. (i - 1) : j <= Len(a) /\ a[j] = b[j]
        /\ i - 1 <= Len(a)
        /\ (i > Len(a) \/ a[i] < b[i])

\* an order as derived had Str been declared before Number
ColumnLess_str_first(a, b) ==
    \/ VariantRank(a) > VariantRank(b)
    \/ /\ a.tag = "Number" /\ b.tag = "Number" /\ a.num < b.num
    \/ /\ a.tag = "Str" /\ b.tag = "Str" /\ StrLess(a.str, b.str)

\* derived PartialOrd/Ord: variant first, then the payload
ColumnLess(a, b) ==
    \/ VariantRank(a) < VariantRank(b)
    \/ /\ a.tag = "Number" /\ b.tag = "Number" /\ a.num < b.num
    \/ /\ a.tag = "Str" /\ b.tag = "Str" /\ StrLess(a.str, b.str)

-----------------------------------------------------------------------------
(* Raw values (V: AsRef<[u8]>) are byte strings; keys (K) are opaque.      *)

Keys == {"1", "2"}

\* more bytes than a u8 position can count: a two-byte character, 'a's, a 'c'
WideValue ==
    [i \in 1 .. (U8Range + 1) |->
        IF i = 1 THEN 200
        ELSE IF i = 2 THEN 130
        ELSE IF i = U8Range + 1 THEN 99
        ELSE 97]

RawValues == { <<97>>, <<98>>, <<>>, <<130, 200>>, WideValue }

-----------------------------------------------------------------------------
(* String::from_utf8: Ok exactly on well-formed UTF-8.                     *)

IsCont(b) == 128 <= b /\ b <= 191

\* one byte of the validation scan: the state names what the bytes read so far
\* still require ("start": nothing; "c1".."c3": that many continuation bytes;
\* "e0", "ed", "f0", "f4": a restricted second byte first)
Utf8Step(state, b) ==
    CASE state = "start" ->
            IF b < 128 THEN "start"
            ELSE IF 194 <= b /\ b <= 223 THEN "c1"
            ELSE IF b = 224 THEN "e0"
            ELSE IF b = 237 THEN "ed"
            ELSE IF 225 <= b /\ b <= 239 THEN "c2"
            ELSE IF b = 240 THEN "f0"
            ELSE IF 241 <= b /\ b <= 243 THEN "c3"
            ELSE IF b = 244 THEN "f4"
            ELSE "bad"
      [] state = "c1" -> IF IsCont(b) THEN "start" ELSE "bad"
      [] state = "c2" -> IF IsCont(b) THEN "c1" ELSE "bad"
      [] state = "c3" -> IF IsCont(b) THEN "c2" ELSE "bad"
      [] state = "e0" -> IF 160 <= b /\ b <= 191 THEN "c1" ELSE "bad"
      [] state = "ed" -> IF 128 <= b /\ b <= 159 THEN "c1" ELSE "bad"
      [] state = "f0" -> IF 144 <= b /\ b <= 191 THEN "c2" ELSE "bad"
      [] state = "f4" -> IF 128 <= b /\ b <= 143 THEN "c2" ELSE "bad"
      [] state = "bad" -> "bad"

RECURSIVE Utf8Scan(_, _, _, _)
\* the scan of bytes[lo+1 .. hi] entered in `state`, left to right, stopping
\* at the first ill-formed byte (the range is halved only to keep the
\* evaluation shallow)
Utf8Scan(bytes, lo, hi, state) ==
    IF state = "bad" THEN "bad"
    ELSE IF hi <= lo THEN state
    ELSE IF hi = lo + 1 THEN Utf8Step(state, bytes[hi])
    ELSE LET mid == (lo + hi) \div 2
         IN  Utf8Scan(bytes, mid, hi, Utf8Scan(bytes, lo, mid, state))

from_utf8_ok(bytes) == Utf8Scan(bytes, 0, Len(bytes), "start") = "start"

-----------------------------------------------------------------------------
(* trait ValueDecoder { fn decode(&self, value: V) -> Vec<Column> }        *)
(* A call either returns a Vec<Column> or panics; the signature has no     *)
(* error value.                                                            *)

Returned(cols) == [panic |-> FALSE, columns |-> cols]

Panicked == [panic |-> TRUE, columns |-> <<>>]

\* tests::SingleStringValueDecoder: the whole value as one Str column;
\* the unwrap() panics when the bytes are not UTF-8
SingleStringDecode(v) ==
    IF from_utf8_ok(v) THEN Returned(<<Str(v)>>) ELSE Panicked

\* decoder::borsh::ValueDecoder: panic!("unimplemented") on every value
BorshDecode(v) == Panicked

\* An implementor of the trait that returns several columns: one column per
\* byte of the value, an ASCII byte as a one-byte Str, any other byte as a
\* (signed) Number.
PerByteDecode(v) ==
    Returned([i \in 1 .. Len(v) |->
                 IF v[i] < 128 THEN Str(<<v[i]>>) ELSE Number(v[i] - 192)])

Decoders == {"SingleString", "Borsh", "PerByte"}

\* self.value_decoder.decode(v): dynamic dispatch on the boxed decoder
decode(d, v) ==
    CASE d = "SingleString" -> SingleStringDecode(v)
      [] d = "Borsh"        -> BorshDecode(v)
      [] d = "PerByte"      -> PerByteDecode(v)

-----------------------------------------------------------------------------
(* HashMap<Column, Vec<K>> is a function on the columns it holds;          *)
(* BTreeMap<Column, Vec<K>> is its entries kept in ascending Column order. *)

EmptyMap == <<>>

Entry(c, keys) == [col |-> c, keys |-> keys]

\* BTreeMap::get_mut: the place of the entry for c, 0 when there is none
BTreeFind(t, c) ==
    IF \E i \in 1 .. Len(t) : t[i].col = c
    THEN CHOOSE i \in 1 .. Len(t) : t[i].col = c
    ELSE 0

\* a BTreeInsert that does not keep the order: the new entry goes last
BTreeInsert_unordered(t, c, keys) == t \o <<Entry(c, keys)>>

\* BTreeMap::insert of a column not yet present: after every smaller column
BTreeInsert(t, c, keys) ==
    LET n == Cardinality({i \in 1 .. Len(t) : ColumnLess(t[i].col, c)})
    IN  SubSeq(t, 1, n) \o <<Entry(c, keys)>> \o SubSeq(t, n + 1, Len(t))

-----------------------------------------------------------------------------
(* Rover::index_column                                                     *)

\* an index_column_maps that inserts a fresh vec![k] over an existing bucket
index_column_maps_overwrite(m, k, c, index) ==
    IF index \in DOMAIN m
    THEN IF c \in DOMAIN m[index]
         THEN [m EXCEPT ![index][c] = <<k>>]
         ELSE [m EXCEPT ![index] = @ @@ (c :> <<k>>)]
    ELSE m @@ (index :> (c :> <<k>>))

\* an index_column_maps that skips a key its bucket already holds
index_column_maps_dedup(m, k, c, index) ==
    IF index \in DOMAIN m
    THEN IF c \in DOMAIN m[index]
         THEN IF \E i \in 1 .. Len(m[index][c]) : m[index][c][i] = k
              THEN m
              ELSE [m EXCEPT ![index][c] = Append(@, k)]
         ELSE [m EXCEPT ![index] = @ @@ (c :> <<k>>)]
    ELSE m @@ (index :> (c :> <<k>>))

\* "// hashmap" half: push onto the bucket, creating bucket and position map
index_column_maps(m, k, c, index) ==
    IF index \in DOMAIN m
    THEN IF c \in DOMAIN m[index]
         THEN [m EXCEPT ![index][c] = Append(@, k)]
         ELSE [m EXCEPT ![index] = @ @@ (c :> <<k>>)]
    ELSE m @@ (index :> (c :> <<k>>))

\* an index_column_btrees that puts the key at the front of an existing bucket
index_column_btrees_front(b, k, c, index) ==
    IF index \in DOMAIN b
    THEN LET i == BTreeFind(b[index], c)
         IN  IF i # 0
             THEN [b EXCEPT ![index][i].keys = <<k>> \o @]
             ELSE [b EXCEPT ![index] = BTreeInsert(@, c, <<k>>)]
    ELSE b @@ (index :> BTreeInsert(<<>>, c, <<k>>))

\* an index_column_btrees that builds a new BTreeMap for the position every
\* time, dropping the buckets the position had
index_column_btrees_fresh(b, k, c, index) ==
    IF index \in DOMAIN b
    THEN [b EXCEPT ![index] = BTreeInsert(<<>>, c, <<k>>)]
    ELSE b @@ (index :> BTreeInsert(<<>>, c, <<k>>))

\* "// btreemap" half: the same on the order index, with the clone of c
index_column_btrees(b, k, c, index) ==
    IF index \in DOMAIN b
    THEN LET i == BTreeFind(b[index], c)
         IN  IF i # 0
             THEN [b EXCEPT ![index][i].keys = Append(@, k)]
             ELSE [b EXCEPT ![index] = BTreeInsert(@, c, <<k>>)]
    ELSE b @@ (index :> BTreeInsert(<<>>, c, <<k>>))

\* an index_column whose hash half runs twice
index_column_twice(st, k, c, index) ==
    [maps   |-> index_column_maps(index_column_maps(st.maps, k, c, index),
                                  k, c, index),
     btrees |-> index_column_btrees(st.btrees, k, c, index)]

index_column(st, k, c, index) ==
    [maps   |-> index_column_maps(st.maps, k, c, index),
     btrees |-> index_column_btrees(st.btrees, k, c, index)]

-----------------------------------------------------------------------------
(* Rover::index_all_columns                                                *)

\* TRUE of every value; comparing it makes the evaluation of x happen here,
\* so that the steps of a loop are evaluated one after the other
Evaluated(x) == x = x

RECURSIVE IndexRange(_, _, _, _, _)
\* the for loop over columns.into_iter().enumerate() for the columns numbered
\* lo .. hi-1 (numbered from 0 as enumerate does), in ascending order (the
\* range is halved only to keep the evaluation shallow)
IndexRange(st, k, columns, lo, hi) ==
    IF hi <= lo THEN st
    ELSE IF hi = lo + 1 THEN index_column(st, k, columns[lo + 1], AsU8(lo))
    ELSE LET mid == (lo + hi) \div 2
             left == IndexRange(st, k, columns, lo, mid)
         IN  IF Evaluated(left)
             THEN IndexRange(left, k, columns, mid, hi)
             ELSE left

\* an index_all_columns that touches the hash index before it decodes
index_all_columns_early(d, st, k, v) ==
    LET r == decode(d, v)
    IN  IF r.panic
        THEN [panic |-> TRUE,
              maps |-> index_column_maps(st.maps, k, Str(<<>>), 0),
              btrees |-> st.btrees]
        ELSE LET done == IndexRange(st, k, r.columns, 0, Len(r.columns))
             IN  [panic |-> FALSE, maps |-> done.maps, btrees |-> done.btrees]

\* an index_all_columns that files a record without columns under an empty
\* Str at position 0
index_all_columns_default(d, st, k, v) ==
    LET r == decode(d, v)
    IN  IF r.panic
        THEN [panic |-> TRUE, maps |-> st.maps, btrees |-> st.btrees]
        ELSE LET cols == IF r.columns = <<>> THEN <<Str(<<>>)>> ELSE r.columns
                 done == IndexRange(st, k, cols, 0, Len(cols))
             IN  [panic |-> FALSE, maps |-> done.maps, btrees |-> done.btrees]

\* decode first; a panic of the decoder unwinds before the loop is entered
index_all_columns(d, st, k, v) ==
    LET r == decode(d, v)
    IN  IF r.panic
        THEN [panic |-> TRUE, maps |-> st.maps, btrees |-> st.btrees]
        ELSE LET done == IndexRange(st, k, r.columns, 0, Len(r.columns))
             IN  [panic |-> FALSE, maps |-> done.maps, btrees |-> done.btrees]

-----------------------------------------------------------------------------
(* Rover::get and Rover::sort_by_column                                    *)

None == [some |-> FALSE, vec |-> <<>>]

Some(x) == [some |-> TRUE, vec |-> x]

\* self.maps.get(&index).and_then(|m| m.get(&c))
get(m, c, index) ==
    IF index \in DOMAIN m
    THEN IF c \in DOMAIN m[index] THEN Some(m[index][c]) ELSE None
    ELSE None

\* a get written with entry(..).or_default(): it leaves an empty bucket (and
\* position map) behind for what it did not find
maps_after_get_or_default(m, c, index) ==
    IF index \in DOMAIN m
    THEN IF c \in DOMAIN m[index] THEN m
         ELSE [m EXCEPT ![index] = @ @@ (c :> <<>>)]
    ELSE m @@ (index :> (c :> <<>>))

\* self.maps after get: get borrows self shared and only calls HashMap::get
maps_after_get(m, c, index) == m

RECURSIVE FoldValues(_, _, _)
\* m.values().fold(acc, |acc, x| acc.append(x.clone())) from the i-th entry
FoldValues(t, i, acc) ==
    IF i > Len(t) THEN acc ELSE FoldValues(t, i + 1, acc \o t[i].keys)

\* self.btrees.get(&index).map_or(Vec::new(), ...)
sort_by_column(b, index) ==
    IF index \in DOMAIN b THEN FoldValues(b[index], 1, <<>>) ELSE <<>>

\* a sort_by_column that appends the stored vectors themselves: Vec::append
\* moves the keys out and leaves every bucket of the position empty
btrees_after_sort_by_column_drain(b, index) ==
    IF index \in DOMAIN b
    THEN [b EXCEPT ![index] = [i \in 1 .. Len(@) |-> Entry(@[i].col, <<>>)]]
    ELSE b

\* self.btrees after sort_by_column: what acc.append drains is x.clone()
btrees_after_sort_by_column(b, index) == b

-----------------------------------------------------------------------------
(* The state machine: a caller holding one Rover.                          *)

\* positions and columns the modelled caller queries
QueryIndexes == {0, U8Range - 1}

QueryColumns == {Str(<<97>>), Str(<<122>>)}

\* no index_all_columns call is under way
Idle == [busy |-> FALSE, k |-> "", v |-> <<>>, columns |-> <<>>, i |-> 0,
         half |-> "maps"]

\* a query never reads while a call holds the exclusive borrow
ExclusivelyBorrowed_never == FALSE

\* index_all_columns and index_column take &mut self: from the call to its
\* return the Rover is borrowed exclusively, and get and sort_by_column, which
\* take &self, cannot be called on it
ExclusivelyBorrowed == pending.busy

\* Rover::new
Init ==
    /\ decoder \in Decoders
    /\ maps = EmptyMap
    /\ btrees = EmptyMap
    /\ log = <<>>
    /\ last = [op |-> "new"]
    /\ alive = TRUE
    /\ pending = Idle

\* a whole index_all_columns call as one step
IndexAllColumns(k, v) ==
    /\ alive
    /\ ~pending.busy
    /\ Len(log) < MaxIngests
    /\ LET r == index_all_columns(decoder, [maps |-> maps, btrees |-> btrees], k, v)
       IN  /\ maps' = r.maps
           /\ btrees' = r.btrees
           /\ IF r.panic
              THEN /\ last' = [op |-> "index_all_columns", k |-> k, v |-> v,
                               ret |-> "panic"]
                   /\ log' = log
                   \* the unwinding is caught by the caller, or ends the program
                   /\ alive' \in BOOLEAN
              ELSE /\ last' = [op |-> "index_all_columns", k |-> k, v |-> v,
                               ret |-> "unit"]
                   /\ log' = Append(log, [k |-> k, columns |-> decode(decoder, v).columns])
                   /\ alive' = alive
    /\ UNCHANGED <<decoder, pending>>

Get(c, index) ==
    /\ alive
    /\ ~ExclusivelyBorrowed
    /\ last' = [op |-> "get", c |-> c, index |-> index, ret |-> get(maps, c, index)]
    /\ maps' = maps_after_get(maps, c, index)
    /\ UNCHANGED <<decoder, btrees, log, alive, pending>>

SortByColumn(index) ==
    /\ alive
    /\ ~ExclusivelyBorrowed
    /\ last' = [op |-> "sort_by_column", index |-> index,
                ret |-> sort_by_column(btrees, index)]
    /\ btrees' = btrees_after_sort_by_column(btrees, index)
    /\ UNCHANGED <<decoder, maps, log, alive, pending>>

Next ==
    \/ \E k \in Keys, v \in RawValues : IndexAllColumns(k, v)
    \/ \E c \in QueryColumns, index \in QueryIndexes : Get(c, index)
    \/ \E index \in QueryIndexes : SortByColumn(index)

Spec == Init /\ [][Next]_vars

-----------------------------------------------------------------------------
(* The same caller with index_all_columns taken apart into its steps: the  *)
(* decode, then for each column the hash half and the order half of        *)
(* index_column, then the return.  Readers take their turns in between     *)
(* wherever the borrow lets them.                                          *)

\* the raw values ingested step by step
StepValues == RawValues \ {WideValue}

\* let columns = self.value_decoder.decode(v)
Call(k, v) ==
    /\ alive
    /\ ~pending.busy
    /\ Len(log) < MaxIngests
    /\ LET r == decode(decoder, v)
       IN  IF r.panic
           THEN /\ last' = [op |-> "index_all_columns", k |-> k, v |-> v,
                            ret |-> "panic"]
                /\ alive' \in BOOLEAN
                /\ pending' = pending
           ELSE /\ pending' = [busy |-> TRUE, k |-> k, v |-> v,
                               columns |-> r.columns, i |-> 0, half |-> "maps"]
                /\ UNCHANGED <<last, alive>>
    /\ UNCHANGED <<decoder, maps, btrees, log>>

\* the "// hashmap" half of index_column for the column under way
StepMaps ==
    /\ pending.busy
    /\ pending.i < Len(pending.columns)
    /\ pending.half = "maps"
    /\ maps' = index_column_maps(maps, pending.k, pending.columns[pending.i + 1],
                                 AsU8(pending.i))
    /\ pending' = [pending EXCEPT !.half = "btrees"]
    /\ UNCHANGED <<decoder, btrees, log, last, alive>>

\* the "// btreemap" half of index_column, and on to the next column
StepBtrees ==
    /\ pending.busy
    /\ pending.i < Len(pending.columns)
    /\ pending.half = "btrees"
    /\ btrees' = index_column_btrees(btrees, pending.k,
                                     pending.columns[pending.i + 1],
                                     AsU8(pending.i))
    /\ pending' = [pending EXCEPT !.i = @ + 1, !.half = "maps"]
    /\ UNCHANGED <<decoder, maps, log, last, alive>>

\* the loop is over: index_all_columns returns ()
Return ==
    /\ pending.busy
    /\ pending.i = Len(pending.columns)
    /\ log' = Append(log, [k |-> pending.k, columns |-> pending.columns])
    /\ last' = [op |-> "index_all_columns", k |-> pending.k, v |-> pending.v,
                ret |-> "unit"]
    /\ pending' = Idle
    /\ UNCHANGED <<decoder, maps, btrees, alive>>

NextSteps ==
    \/ \E k \in Keys, v \in StepValues : Call(k, v)
    \/ StepMaps
    \/ StepBtrees
    \/ Return
    \/ \E c \in QueryColumns, index \in QueryIndexes : Get(c, index)
    \/ \E index \in QueryIndexes : SortByColumn(index)

SpecSteps == Init /\ [][NextSteps]_vars

-----------------------------------------------------------------------------
(* What the history of completed calls says the indexes should hold.       *)

Range(s) == {s[i] : i \in 1 .. Len(s)}

\* every Column some decoder returns for some raw value, and the queried ones
AllColumns ==
    UNION {Range(decode(d, v).columns) : d \in Decoders, v \in RawValues}
        \cup QueryColumns

\* the ingested records that have a column at zero-based index p, in call
\* order, each with its key and that column
Occurrences(p) ==
    LET has(e) == p < Len(e.columns)
        hits == SelectSeq(log, has)
    IN  [i \in 1 .. Len(hits) |-> [k |-> hits[i].k, c |-> hits[i].columns[p + 1]]]

KeysOf(s) == [i \in 1 .. Len(s) |-> s[i].k]

\* the keys ingested with column c at zero-based index p, in call order
KeysWith(p, c) ==
    LET is(e) == e.c = c
    IN  KeysOf(SelectSeq(Occurrences(p), is))

\* e put into the sorted t after every element whose column is not greater
InsertStable(t, e) ==
    LET n == Cardinality({i \in 1 .. Len(t) : ~ColumnLess(e.c, t[i].c)})
    IN  SubSeq(t, 1, n) \o <<e>> \o SubSeq(t, n + 1, Len(t))

RECURSIVE StableSort(_)
\* s sorted by column, elements of equal column kept in the order of s
StableSort(s) ==
    IF s = <<>> THEN <<>>
    ELSE InsertStable(StableSort(SubSeq(s, 1, Len(s) - 1)), s[Len(s)])

\* no completed call decoded to more columns than there are positions
AllWithinRange == \A i \in 1 .. Len(log) : Len(log[i].columns) <= U8Range

RECURSIVE AscendingColumns(_)
\* the columns of the set S as a sequence, least first
AscendingColumns(S) ==
    IF S = {} THEN <<>>
    ELSE LET least == CHOOSE c \in S : \A d \in S \ {c} : ColumnLess(c, d)
         IN  <<least>> \o AscendingColumns(S \ {least})

RECURSIVE ConcatBuckets(_, _)
\* the hash-index buckets of position p for the columns cs, one after another
ConcatBuckets(p, cs) ==
    IF cs = <<>> THEN <<>>
    ELSE get(maps, Head(cs), p).vec \o ConcatBuckets(p, Tail(cs))

Count(s, x) == Cardinality({i \in 1 .. Len(s) : s[i] = x})

-----------------------------------------------------------------------------
(* Claims.                                                                 *)

\* C1: at every position the hash index and the order index hold the same
\* buckets: a position map exists in one iff in the other, a column has a
\* bucket in one iff in the other, and the two buckets are the same sequence
\* of keys.
C1_Equivalence ==
    \A p \in ColumnIndex :
        /\ p \in DOMAIN maps <=> p \in DOMAIN btrees
        /\ p \in DOMAIN maps =>
              /\ DOMAIN maps[p] = {btrees[p][i].col : i \in 1 .. Len(btrees[p])}
              /\ Cardinality(DOMAIN maps[p]) = Len(btrees[p])
              /\ \A i \in 1 .. Len(btrees[p]) :
                    maps[p][btrees[p][i].col] = btrees[p][i].keys

\* a bucket that was pushed onto, at a position where the order index holds
\* it, is in both indexes
C1_Witness ==
    \E p \in DOMAIN maps : \E c \in DOMAIN maps[p] :
        /\ Len(maps[p][c]) >= 2
        /\ maps[p][c][1] # maps[p][c][2]
        /\ p \in DOMAIN btrees
        /\ BTreeFind(btrees[p], c) # 0

\* C2: at every position, sort_by_column is the keys of the records ingested
\* with a column at that position, in non-decreasing order of that column,
\* records of equal column in the order they were ingested.
C2_OrderInvariant ==
    \A p \in ColumnIndex :
        sort_by_column(btrees, p) = KeysOf(StableSort(Occurrences(p)))

\* C3: when every ingested record had at most 256 columns, get(c, p) holds
\* exactly the keys of the records whose column at index p is c, in the order
\* they were ingested.
C3_ExactLookup ==
    AllWithinRange =>
        \A p \in ColumnIndex : \A c \in AllColumns :
            get(maps, c, p).vec = KeysWith(p, c)

\* a get that returned two keys ingested one after the other
C3_Witness ==
    /\ AllWithinRange
    /\ last.op = "get"
    /\ last.ret = Some(<<"2", "1">>)
    /\ KeysWith(last.index, last.c) = <<"2", "1">>

\* C4: whenever two calls, an earlier and a later one, ingested the same
\* column c at the same index p, get(c, p) and sort_by_column(p) each hold
\* the earlier call's key at a place before the later call's key, also when
\* the two keys are the same key.
C4_DuplicatesPreserved ==
    \A i \in 1 .. Len(log) : \A j \in (i + 1) .. Len(log) :
        \A p \in ColumnIndex :
            (/\ p < Len(log[i].columns)
             /\ p < Len(log[j].columns)
             /\ log[i].columns[p + 1] = log[j].columns[p + 1]) =>
                LET c == log[i].columns[p + 1]
                    g == get(maps, c, p).vec
                    t == sort_by_column(btrees, p)
                IN  /\ \E a \in 1 .. Len(g) : \E b \in (a + 1) .. Len(g) :
                          g[a] = log[i].k /\ g[b] = log[j].k
                    /\ \E a \in 1 .. Len(t) : \E b \in (a + 1) .. Len(t) :
                          t[a] = log[i].k /\ t[b] = log[j].k

\* the same key ingested twice with the same column, and a get returning it twice
C4_Witness ==
    /\ Len(log) = 2
    /\ log[1] = log[2]
    /\ last.op = "get"
    /\ last.ret = Some(<<log[1].k, log[1].k>>)
    /\ sort_by_column(btrees, last.index) = <<log[1].k, log[1].k>>

\* C5: an index_all_columns call whose value decodes to more than 256
\* columns returns the TooManyColumns error.
C5_TooManyColumnsRejected ==
    (/\ last.op = "index_all_columns"
     /\ ~decode(decoder, last.v).panic
     /\ Len(decode(decoder, last.v).columns) > U8Range) =>
        last.ret = "TooManyColumns"

\* C6: a step that completes an index_all_columns call whose value decodes to
\* more than 256 columns changes neither index.
C6_NoWrapAround ==
    [][(/\ Len(log') = Len(log) + 1
        /\ Len(log'[Len(log')].columns) > U8Range) =>
            (maps' = maps /\ btrees' = btrees)]_vars

\* C7: an index_all_columns call on which the decoder fails returns the
\* DecodeFailure error value and the indexer stays usable.
C7_DecodeFailureTyped ==
    (/\ last.op = "index_all_columns"
     /\ decode(decoder, last.v).panic) =>
        (last.ret = "DecodeFailure" /\ alive)

\* C8: a step in which the decoder fails leaves the result of get(c, p) and
\* of sort_by_column(p) as it was, for every position and column.
C8_AtomicOnDecodeFailure ==
    [][(/\ last'.op = "index_all_columns"
        /\ last'.ret = "panic") =>
            \A p \in ColumnIndex :
                /\ sort_by_column(btrees', p) = sort_by_column(btrees, p)
                /\ \A c \in AllColumns : get(maps', c, p) = get(maps, c, p)]_vars

\* the decoder failed on a call made on an indexer that already held keys
C8_Witness ==
    /\ last.op = "index_all_columns"
    /\ last.ret = "panic"
    /\ Len(log) >= 1
    /\ get(maps, Str(<<97>>), 0).some

\* C9: when every ingested record had at most 256 columns, sort_by_column(p)
\* has one element per record ingested with a column at index p, holds each
\* key as often as it was so ingested, and is the buckets of position p one
\* after another in ascending order of their columns.
C9_SortComplete ==
    AllWithinRange =>
        \A p \in ColumnIndex :
            LET t == sort_by_column(btrees, p)
                occ == KeysOf(Occurrences(p))
                cols == IF p \in DOMAIN maps THEN DOMAIN maps[p] ELSE {}
            IN  /\ Len(t) = Len(occ)
                /\ \A k \in Keys : Count(t, k) = Count(occ, k)
                /\ t = ConcatBuckets(p, AscendingColumns(cols))

\* two records ingested in descending column order and sorted the other way round
C9_Witness ==
    /\ AllWithinRange
    /\ Len(log) = 2
    /\ Len(log[1].columns) >= 1 /\ Len(log[2].columns) >= 1
    /\ ColumnLess(log[2].columns[1], log[1].columns[1])
    /\ log[1].k # log[2].k
    /\ sort_by_column(btrees, 0) = <<log[2].k, log[1].k>>

\* C10: get(c, p) returns None whenever no ingested record had column c at
\* index p.
C10_AbsentIsNone ==
    \A p \in ColumnIndex : \A c \in AllColumns :
        KeysWith(p, c) = <<>> => get(maps, c, p) = None

\* C11: sort_by_column(p) is the empty sequence at every position at which no
\* ingested record had a column, so at every position of a new indexer.
C11_SortEmptyWhereNothingIndexed ==
    \A p \in ColumnIndex :
        Occurrences(p) = <<>> => sort_by_column(btrees, p) = <<>>

\* a sort_by_column that returned nothing for a position no record reached,
\* on an indexer that holds keys at another position
C11_Witness ==
    /\ last.op = "sort_by_column"
    /\ last.ret = <<>>
    /\ Occurrences(last.index) = <<>>
    /\ Len(log) >= 1
    /\ sort_by_column(btrees, 0) # <<>>

\* s is an initial part of t
IsPrefix(s, t) == Len(s) <= Len(t) /\ SubSeq(t, 1, Len(s)) = s

\* C12: across every step, each position map and each bucket of either index
\* is still there afterwards, and the keys it held are an initial part of the
\* keys it holds afterwards.
C12_MonotonicGrowth ==
    [][/\ \A p \in DOMAIN maps :
              /\ p \in DOMAIN maps'
              /\ \A c \in DOMAIN maps[p] :
                    /\ c \in DOMAIN maps'[p]
                    /\ IsPrefix(maps[p][c], maps'[p][c])
       /\ \A p \in DOMAIN btrees :
              /\ p \in DOMAIN btrees'
              /\ \A i \in 1 .. Len(btrees[p]) :
                    LET j == BTreeFind(btrees'[p], btrees[p][i].col)
                    IN  /\ j # 0
                        /\ IsPrefix(btrees[p][i].keys, btrees'[p][j].keys)]_vars

\* a bucket of both indexes that a second call pushed a key onto
C12_Witness ==
    /\ Len(log) = 2
    /\ \E p \in DOMAIN btrees :
          /\ Len(btrees[p]) = 1
          /\ Len(btrees[p][1].keys) = 2
          /\ Len(maps[p][btrees[p][1].col]) = 2

\* C13: a step that completes an index_all_columns call whose value decodes
\* to no column returns normally and changes neither index.
C13_EmptyRecordNoEffect ==
    [][(/\ Len(log') = Len(log) + 1
        /\ log'[Len(log')].columns = <<>>) =>
            (/\ maps' = maps
             /\ btrees' = btrees
             /\ last'.op = "index_all_columns"
             /\ last'.ret = "unit")]_vars

\* a record without columns was ingested into an indexer that held keys
C13_Witness ==
    /\ last.op = "index_all_columns"
    /\ last.ret = "unit"
    /\ Len(log) = 2
    /\ log[2].columns = <<>>
    /\ log[1].columns # <<>>
    /\ maps # EmptyMap
    /\ btrees # EmptyMap

\* i32 values and short strings to compare, besides the columns of the model
NumberSamples == {-2147483647 - 1, -62, -1, 0, 1, 8, 2147483647}

StrSamples == {<<>>, <<97>>, <<97, 97>>, <<97, 98>>, <<98>>, <<200, 130>>}

ColumnSamples ==
    AllColumns \cup {Number(n) : n \in NumberSamples}
               \cup {Str(x) : x \in StrSamples}

RECURSIVE LexLess(_, _)
\* s before t in the dictionary: at the first place where they differ s has
\* the smaller byte, or s ends there and t does not
LexLess(s, t) ==
    IF t = <<>> THEN FALSE
    ELSE IF s = <<>> THEN TRUE
    ELSE IF Head(s) # Head(t) THEN Head(s) < Head(t)
    ELSE LexLess(Tail(s), Tail(t))

\* the Column order is a strict total order that is numeric on Number,
\* lexicographic on Str, and has every Number before every Str
ColumnOrderLaws ==
    /\ \A a \in ColumnSamples : \A b \in ColumnSamples :
          /\ (a = b) <=> (~ColumnLess(a, b) /\ ~ColumnLess(b, a))
          /\ ~(ColumnLess(a, b) /\ ColumnLess(b, a))
          /\ (a.tag = "Number" /\ b.tag = "Str") => ColumnLess(a, b)
          /\ \A c \in ColumnSamples :
                (ColumnLess(a, b) /\ ColumnLess(b, c)) => ColumnLess(a, c)
    /\ \A x \in NumberSamples : \A y \in NumberSamples :
          ColumnLess(Number(x), Number(y)) <=> x < y
    /\ \A x \in StrSamples : \A y \in StrSamples :
          ColumnLess(Str(x), Str(y)) <=> LexLess(x, y)

ColsOf(t) == [i \in 1 .. Len(t) |-> t[i].col]

\* C14: the Column order is one total order (numeric on Number, lexicographic
\* on Str, every Number before every Str), the order index holds its buckets
\* in that order, and sort_by_column(p) is the keys of the Number buckets of
\* p followed by the keys of its Str buckets.
C14_ColumnOrder ==
    /\ ColumnOrderLaws
    /\ \A p \in DOMAIN btrees :
          LET t == btrees[p]
              isNumber(e) == e.col.tag = "Number"
              isStr(e) == e.col.tag = "Str"
          IN  /\ \A i \in 1 .. Len(t) : \A j \in (i + 1) .. Len(t) :
                    /\ ~(isStr(t[i]) /\ isNumber(t[j]))
                    /\ (isNumber(t[i]) /\ isNumber(t[j])) =>
                          t[i].col.num < t[j].col.num
                    /\ (isStr(t[i]) /\ isStr(t[j])) =>
                          LexLess(t[i].col.str, t[j].col.str)
              /\ sort_by_column(btrees, p) =
                    ConcatBuckets(p, ColsOf(SelectSeq(t, isNumber)))
                        \o ConcatBuckets(p, ColsOf(SelectSeq(t, isStr)))

\* a position where a Str column was ingested before a Number column and
\* sort_by_column lists the key of the Number column first
C14_Witness ==
    /\ Len(log) = 2
    /\ log[1].k # log[2].k
    /\ \E p \in DOMAIN btrees :
          /\ p < Len(log[1].columns) /\ p < Len(log[2].columns)
          /\ log[1].columns[p + 1].tag = "Str"
          /\ log[2].columns[p + 1].tag = "Number"
          /\ sort_by_column(btrees, p) = <<log[2].k, log[1].k>>

\* two Number columns at one position, the greater ingested first
C14_NumbersWitness ==
    /\ Len(log) = 2
    /\ log[1].k # log[2].k
    /\ log[1].columns # <<>> /\ log[2].columns # <<>>
    /\ log[1].columns[1].tag = "Number"
    /\ log[2].columns[1].tag = "Number"
    /\ log[2].columns[1].num < log[1].columns[1].num
    /\ sort_by_column(btrees, 0)[1] = log[2].k

\* the bucket of column c at position p in the order index, as get gives it
\* for the hash index
BTreeBucket(b, c, p) ==
    IF p \in DOMAIN b
    THEN LET i == BTreeFind(b[p], c)
         IN  IF i # 0 THEN Some(b[p][i].keys) ELSE None
    ELSE None

\* C16: a step that completes an index_all_columns call with columns
\* c_0..c_(n-1), n <= 256, puts the key once at the end of bucket (p, c_p) of
\* each index for every p < n and leaves every other bucket, and every
\* position from n on, as it was.
C16_TouchesOnlyNamedBuckets ==
    [][(/\ Len(log') = Len(log) + 1
        /\ Len(log'[Len(log')].columns) <= U8Range) =>
            LET e == log'[Len(log')]
                n == Len(e.columns)
            IN  /\ DOMAIN maps' = DOMAIN maps \cup 0 .. (n - 1)
                /\ DOMAIN btrees' = DOMAIN btrees \cup 0 .. (n - 1)
                /\ \A p \in ColumnIndex : \A c \in AllColumns :
                      IF p < n /\ e.columns[p + 1] = c
                      THEN /\ get(maps', c, p) =
                                Some(Append(get(maps, c, p).vec, e.k))
                           /\ BTreeBucket(btrees', c, p) =
                                Some(Append(BTreeBucket(btrees, c, p).vec, e.k))
                      ELSE /\ get(maps', c, p) = get(maps, c, p)
                           /\ BTreeBucket(btrees', c, p) =
                                BTreeBucket(btrees, c, p)]_vars

\* a record of two columns ingested into an indexer that held buckets at
\* those two positions and at positions beyond them
C16_Witness ==
    /\ last.op = "index_all_columns"
    /\ last.ret = "unit"
    /\ Len(log) = 2
    /\ Len(log[2].columns) = 2
    /\ Len(log[1].columns) > 2
    /\ log[1].columns[1] # log[2].columns[1]
    /\ get(maps, log[2].columns[1], 0) = Some(<<log[2].k>>)
    /\ get(maps, log[1].columns[1], 0).some
    /\ (U8Range - 1) \in DOMAIN btrees

\* C17: a get or sort_by_column step leaves both indexes as they were, and the
\* same query made again right after it returns what it returned.
C17_QueriesReadOnly ==
    [][/\ last'.op = "get" =>
              /\ maps' = maps /\ btrees' = btrees
              /\ get(maps', last'.c, last'.index) = last'.ret
       /\ last'.op = "sort_by_column" =>
              /\ maps' = maps /\ btrees' = btrees
              /\ sort_by_column(btrees', last'.index) = last'.ret]_vars

\* a get for a column and a position that hold nothing, on an indexer that
\* holds keys, after which neither a position map nor a bucket is there
C17_Witness ==
    /\ last.op = "get"
    /\ last.ret = None
    /\ maps # EmptyMap
    /\ last.index \notin DOMAIN maps
    /\ last.index \notin DOMAIN btrees

\* every bucket of either index holds a key and every position map a bucket
NoEmptyBuckets ==
    /\ \A p \in DOMAIN maps :
          /\ DOMAIN maps[p] # {}
          /\ \A c \in DOMAIN maps[p] : maps[p][c] # <<>>
    /\ \A p \in DOMAIN btrees :
          /\ btrees[p] # <<>>
          /\ \A i \in 1 .. Len(btrees[p]) : btrees[p][i].keys # <<>>

\* C18: no bucket of either index is empty and no position map is empty;
\* get(c, p) is present exactly when some ingested record had column c at
\* index p, and a present result holds a key.
C18_NoEmptyBuckets ==
    /\ NoEmptyBuckets
    /\ \A p \in ColumnIndex : \A c \in AllColumns :
          /\ get(maps, c, p).some <=> KeysWith(p, c) # <<>>
          /\ get(maps, c, p).some => get(maps, c, p).vec # <<>>

RECURSIVE Replay(_)
\* the indexes a new Rover has after whole index_all_columns calls for the
\* first n records of the history
Replay(n) ==
    IF n = 0 THEN [maps |-> EmptyMap, btrees |-> EmptyMap]
    ELSE IndexRange(Replay(n - 1), log[n].k, log[n].columns, 0,
                    Len(log[n].columns))

\* the indexes hold every record that was ingested, whole, and of the record
\* under way either nothing or everything
NothingPartial ==
    LET now == [maps |-> maps, btrees |-> btrees]
        before == Replay(Len(log))
    IN  \/ now = before
        \/ /\ pending.busy
           /\ now = IndexRange(before, pending.k, pending.columns, 0,
                               Len(pending.columns))

\* C15: with index_all_columns running step by step, every get and every
\* sort_by_column reads indexes that hold each record whole or not at all:
\* no read falls between two positions of a record or between the hash half
\* and the order half of one position.
C15_NoPartialRead ==
    [][(/\ last' # last
        /\ last'.op \in {"get", "sort_by_column"}) => NothingPartial]_vars

\* a reader sorted the first record's key out of the indexes, and the writer
\* is now between the hash half and the order half of the second position of
\* the next record
C15_Witness ==
    /\ last.op = "sort_by_column"
    /\ last.ret # <<>>
    /\ Len(log) = 1
    /\ pending.busy
    /\ pending.i = 1
    /\ pending.half = "btrees"
    /\ ~NothingPartial

=============================================================================
